---- MODULE Spec2Model ----
(***************************************************************************)
(* Model of setup.py of LIEF: the version resolver (get_version and its    *)
(* helpers) followed by setup(), which runs BuildLibrary.run and           *)
(* BuildLibrary.build_extension.  Python strings that the code takes apart *)
(* (the output of git describe, the version) are sequences of one          *)
(* character strings; argument vectors are sequences of strings.           *)
(***************************************************************************)
EXTENDS Integers, Sequences, FiniteSets, TLC

\* ------------------------------------------------------------------ bounds
MaxTagLen   == 3      \* longest tag name enumerated
MaxParallel == 2      \* largest value of build_ext.parallel enumerated
MaxExt      == 2      \* most extensions in self.extensions
MaxRuns     == 2      \* invocations of the script on the same tree

\* ----------------------------------------------------------- python strings
RECURSIVE Split(_, _)
\* str.split(sep) for a one character separator
Split(s, sep) ==
    IF \A i \in 1..Len(s) : s[i] # sep
    THEN <<s>>
    ELSE LET i == CHOOSE k \in 1..Len(s) :
                      s[k] = sep /\ \A j \in 1..(k - 1) : s[j] # sep
         IN  <<SubSeq(s, 1, i - 1)>> \o Split(SubSeq(s, i + 1, Len(s)), sep)

RECURSIVE LStrip(_, _)
\* str.lstrip(c) for a one character argument
LStrip(s, c) ==
    IF s # <<>> /\ Head(s) = c THEN LStrip(Tail(s), c) ELSE s

RECURSIVE Format(_, _, _)
\* str.format(tag=..., gitsha=...): a format is a sequence whose elements are
\* literal characters or one of the replacement fields "{tag}", "{gitsha}"
Format(f, tag, gitsha) ==
    IF f = <<>> THEN <<>>
    ELSE (CASE Head(f) = "{tag}"    -> tag
            [] Head(f) = "{gitsha}" -> gitsha
            [] OTHER                -> <<Head(f)>>) \o Format(Tail(f), tag, gitsha)

\* ------------------------------------------------------- module constants
PACKAGE_NAME == "lief"
fmt          == <<"{tag}", ".", "d", "e", "v", "0">>
fmt_tagged   == <<"{tag}">>
DefaultVersion == <<"0", ".", "0", ".", "0">>

\* ------------------------------------------------------------ git's answers
Chars == {"v", "-"}

RECURSIVE StringsOfLen(_)
StringsOfLen(n) ==
    IF n = 0 THEN {<<>>}
    ELSE {Append(s, c) : s \in StringsOfLen(n - 1), c \in Chars}

\* tag names git accepts: non-empty, not starting with '-'
Tags == UNION {{t \in StringsOfLen(n) : t[1] # "-"} : n \in 1..MaxTagLen}

Counts == {<<"0">>, <<"2">>}
Sha    == <<"a", "b">>
DirtySuffix == <<"-", "d", "i", "r", "t", "y">>

\* what `git describe --tags --long --dirty` prints for nearest tag `tag`,
\* `count` commits after it
DescribeOutput(tag, count, dirty) ==
    tag \o <<"-">> \o count \o <<"-", "g">> \o Sha
        \o (IF dirty THEN DirtySuffix ELSE <<>>)

\* --------------------------------------------------------- version helpers
\* assert len(parts) in (3, 4)
format_version_asserts(version) == Len(Split(version, "-")) \in {3, 4}

\* format_version(version, fmt), defined when the assertion passes
format_version(version, f) ==
    LET parts == Split(version, "-")
        dirty == Len(parts) = 4
        tag   == parts[1]
        count == parts[2]
        sha   == parts[3]
    IN  IF count = <<"0">> /\ ~dirty
        THEN tag
        ELSE Format(f, tag, LStrip(sha, "g"))

\* get_git_version(is_tagged) applied to the output git printed
get_git_version(git_version, tagged) ==
    IF tagged
    THEN format_version(git_version, fmt_tagged)
    ELSE format_version(git_version, fmt)

\* ------------------------------------------------------------ python values
\* a str, None, or "no value yet"; an exception leaves the function instead
Str(s)   == [st |-> "str",   s |-> s]
None     == [st |-> "None",  s |-> <<>>]
Unset    == [st |-> "unset", s |-> <<>>]
Raised   == [st |-> "exc",   s |-> <<>>]

\* the version recorded in lief.egg-info/PKG-INFO
PkgVersion == <<"0", ".", "9">>

\* --------------------------------------------------------- build constants
SourceDir  == "/src"                  \* ext.sourcedir = abspath(CURRENT_DIR)
OutputDir  == "/src/build"            \* abspath(dirname(build_temp))
PythonExe  == "/usr/bin/python"       \* sys.executable
BuildLib   == "/src/build/lib"        \* self.build_lib
LibSuffix  == "so"
ExtNames   == <<"lief", "ext2", "ext3", "ext4">>
Systems    == {"Linux", "Windows"}    \* platform.system()

\* the degree dropped: every call asks for one job
JobsAlwaysOne(par) == 1

\* jobs = self.parallel if self.parallel else 1   (0 stands for None)
Jobs(par) == IF par # 0 THEN par ELSE 1

\* cfg = 'Debug' if self.debug else 'Release'
Cfg(dbg) == IF dbg THEN "Debug" ELSE "Release"
CfgUpper(dbg) == IF dbg THEN "DEBUG" ELSE "RELEASE"

\* build_args, lines 90-96
BuildArgs(sys, dbg) ==
    <<"--config", Cfg(dbg)>> \o (IF sys = "Windows" THEN <<"--", "/m">> ELSE <<>>)

\* the generator chosen from the probe alone, --ninja not consulted
NinjaArgsProbeOnly(hasNinja, ninjaFlag) ==
    IF hasNinja THEN <<"-G", "Ninja">> ELSE <<>>

\* the generator arguments of lines 105-108
NinjaArgs(hasNinja, ninjaFlag) ==
    IF hasNinja /\ ninjaFlag THEN <<"-G", "Ninja">> ELSE <<>>

\* cmake_args as it stands at line 112
CmakeArgs(sys, dbg, test, hasNinja, ninjaFlag) ==
    <<"-DCMAKE_LIBRARY_OUTPUT_DIRECTORY=" \o OutputDir,
      "-DPYTHON_EXECUTABLE=" \o PythonExe>>
    \o (IF test THEN <<"-DLIEF_TESTS=on">> ELSE <<>>)
    \o (IF sys = "Windows"
        THEN <<"-DCMAKE_LIBRARY_OUTPUT_DIRECTORY_" \o CfgUpper(dbg) \o "=" \o OutputDir,
               "-DLIEF_USE_CRT_RELEASE=MT", "-A", "x64">>
        ELSE <<"-DCMAKE_BUILD_TYPE=" \o Cfg(dbg)>>)
    \o NinjaArgs(hasNinja, ninjaFlag)

\* '-j{}'.format(jobs)
JFlag(n) == "-j" \o ToString(n)

\* the test chain without its second configure, and the copy-ready target
\* built before the samples
BuildCommandsReordered(sys, withNinja, test, jobs, confCmd, buildArgs) ==
    IF sys = "Windows"
    THEN << <<"cmake", "--build", ".", "--target", "pyLIEF">> \o buildArgs >>
    ELSE IF withNinja
         THEN IF test
              THEN << <<"ninja">>, <<"ninja", "lief_samples">>,
                      <<"ninja", "check-lief">> >>
              ELSE << <<"ninja", "pyLIEF">> >>
         ELSE IF test
              THEN << <<"make", JFlag(jobs), "all">>,
                      <<"make", JFlag(jobs), "lief_samples">>,
                      <<"make", JFlag(jobs), "check-lief">> >>
              ELSE << <<"make", JFlag(jobs), "pyLIEF">> >>

\* the subprocess calls of step "2. Build", lines 115-136, in order
BuildCommands(sys, withNinja, test, jobs, confCmd, buildArgs) ==
    IF sys = "Windows"
    THEN << <<"cmake", "--build", ".", "--target", "pyLIEF">> \o buildArgs >>
    ELSE IF withNinja
         THEN IF test
              THEN << <<"ninja", "lief_samples">>, confCmd,
                      <<"ninja">>, <<"ninja", "check-lief">> >>
              ELSE << <<"ninja", "pyLIEF">> >>
         ELSE IF test
              THEN << <<"make", JFlag(jobs), "lief_samples">>, confCmd,
                      <<"make", JFlag(jobs), "all">>,
                      <<"make", JFlag(jobs), "check-lief">> >>
              ELSE << <<"make", JFlag(jobs), "pyLIEF">> >>

\* subprocess.call in place of check_call: the exit status is dropped
AfterCallIgnored(ok, next) == next

\* subprocess.check_call: a non-zero exit raises CalledProcessError
AfterCheckCall(ok, next) == IF ok THEN next ELSE "raised"

\* the failed probe passed over instead of raised
AfterCmakeProbeSwallowed(probe) == "build_extension"

\* the try/except of run(), lines 43-47
AfterCmakeProbe(probe) == IF probe = "ok" THEN "build_extension" ELSE "raised"

\* -------------------------------------------------------------------- state
VARIABLES
    pc,                \* position of the script
    git_dir,           \* CURRENT_DIR/.git is a directory
    pkg_info,          \* CURRENT_DIR/lief.egg-info/PKG-INFO is a file
    is_tagged,         \* local of get_version
    described,         \* what git describe answered in this invocation
    version,           \* module level `version`, the value given to setup()
    system,            \* platform.system()
    debug,             \* self.debug
    lief_test,         \* self.distribution.lief_test
    ninja,             \* self.distribution.ninja
    parallel,          \* self.parallel, 0 for None
    extensions,        \* self.extensions, by name
    ext_i,             \* index of the extension run() is at
    cmake_probe,       \* how `cmake --version` ended in this invocation
    ninja_probe,       \* what has_ninja() returned for the current extension
    build_with_ninja,  \* local of build_extension
    configure_cmd,     \* local of build_extension
    step,              \* index of the next call of step "2. Build"
    calls,             \* subprocess calls and copies started in this invocation
    copied,            \* extensions whose artifact was copied to build_lib
    build_temp_exists, \* os.path.exists(self.build_temp)
    build_lib_exists,  \* os.path.exists(self.build_lib)
    configured,        \* every configure_cmd line 113 issued, over all invocations
    run_no             \* invocations of the script so far

vars == <<pc, git_dir, pkg_info, is_tagged, described, version, system, debug,
          lief_test, ninja, parallel, extensions, ext_i, cmake_probe,
          ninja_probe, build_with_ninja, configure_cmd, step, calls, copied,
          build_temp_exists, build_lib_exists, configured, run_no>>

fsVars     == <<git_dir, pkg_info>>
optVars    == <<system, debug, lief_test, ninja, parallel, extensions>>
versionVars == <<is_tagged, described, version>>
buildVars  == <<ext_i, cmake_probe, ninja_probe, build_with_ninja, configure_cmd,
                step, calls, copied, build_temp_exists, build_lib_exists,
                configured>>

NotDescribed == [ran |-> FALSE, ok |-> FALSE, tag |-> <<>>, count |-> <<>>,
                 dirty |-> FALSE]

\* one entry of `calls`
Call(argv, ok, ext) == [argv |-> argv, ok |-> ok, ext |-> ext]

Init ==
    /\ pc = "get_version"
    /\ git_dir \in BOOLEAN
    /\ pkg_info \in BOOLEAN
    /\ is_tagged = FALSE
    /\ described = NotDescribed
    /\ version = Unset
    /\ system \in Systems
    /\ debug \in BOOLEAN
    /\ lief_test \in BOOLEAN
    /\ ninja \in BOOLEAN
    /\ parallel \in 0..MaxParallel
    /\ \E n \in 1..MaxExt : extensions = SubSeq(ExtNames, 1, n)
    /\ ext_i = 0
    /\ cmake_probe = "none"
    /\ ninja_probe = FALSE
    /\ build_with_ninja = FALSE
    /\ configure_cmd = <<>>
    /\ step = 0
    /\ calls = <<>>
    /\ copied = {}
    /\ build_temp_exists = FALSE
    /\ build_lib_exists = FALSE
    /\ configured = <<>>
    /\ run_no = 1

\* ---------------------------------------------------------- get_version()
\* lines 183-187: the defaults and the test of git_dir.is_dir()
GetVersion ==
    /\ pc = "get_version"
    /\ pc' = IF git_dir THEN "check_if_tagged" ELSE "pkg_info"
    /\ UNCHANGED <<fsVars, optVars, versionVars, buildVars, run_no>>

\* lines 188-192 with check_if_tagged (173-175): any exception leaves False
CheckIfTagged ==
    /\ pc = "check_if_tagged"
    /\ \E answer \in {"fails", "no tag", "tags"} :
           is_tagged' = (answer = "tags")
    /\ pc' = "get_git_version"
    /\ UNCHANGED <<fsVars, optVars, described, version, buildVars, run_no>>

\* lines 194-197 with get_git_version (167-171) and format_version (157-164):
\* git fails, or prints its description of HEAD; any exception is passed over
GetGitVersion ==
    /\ pc = "get_git_version"
    /\ \/ /\ described' = [NotDescribed EXCEPT !.ran = TRUE]
          /\ pc' = "pkg_info"
          /\ UNCHANGED version
       \/ \E tag \in Tags, count \in Counts, dirty \in BOOLEAN :
            LET git_version == DescribeOutput(tag, count, dirty) IN
            /\ described' = [ran |-> TRUE, ok |-> TRUE, tag |-> tag,
                             count |-> count, dirty |-> dirty]
            /\ IF format_version_asserts(git_version)
               THEN /\ version' = Str(get_git_version(git_version, is_tagged))
                    /\ pc' = "setup"
               ELSE /\ pc' = "pkg_info"
                    /\ UNCHANGED version
    /\ UNCHANGED <<fsVars, optVars, is_tagged, buildVars, run_no>>

\* what get_version returns when no source gave a version (falls off the end)
NoSourceResult == None

\* lines 199-200 with get_pkg_info_version (177-180), which is not guarded,
\* and the end of the function
PkgInfo ==
    /\ pc = "pkg_info"
    /\ IF pkg_info
       THEN \/ /\ version' = Str(PkgVersion)
               /\ pc' = "setup"
            \/ /\ version' = Raised
               /\ pc' = "raised"
       ELSE /\ version' = NoSourceResult
            /\ pc' = "setup"
    /\ UNCHANGED <<fsVars, optVars, is_tagged, described, buildVars, run_no>>

\* lines 204-214: get_version has returned and its locals are gone;
\* setup(version=version) dispatches to BuildLibrary.run
Setup ==
    /\ pc = "setup"
    /\ pc' = "run"
    /\ is_tagged' = FALSE
    /\ described' = NotDescribed
    /\ UNCHANGED <<fsVars, optVars, version, buildVars, run_no>>

\* ------------------------------------------------------- BuildLibrary.run
\* lines 42-47: the probe `cmake --version`; OSError becomes RuntimeError, a
\* non-zero exit leaves as CalledProcessError
Run ==
    /\ pc = "run"
    /\ \E probe \in {"ok", "oserror", "nonzero"} :
         /\ cmake_probe' = probe
         /\ calls' = Append(calls, Call(<<"cmake", "--version">>, probe = "ok", 0))
         /\ pc' = AfterCmakeProbe(probe)
         /\ ext_i' = IF AfterCmakeProbe(probe) = "build_extension" THEN 1 ELSE ext_i
    /\ UNCHANGED <<fsVars, optVars, versionVars, ninja_probe, build_with_ninja,
                   configure_cmd, step, copied, build_temp_exists,
                   build_lib_exists, configured, run_no>>

\* lines 66-108: the locals, makedirs(build_temp) and has_ninja() (57-63),
\* which is called whether or not --ninja was given
BuildExtension ==
    /\ pc = "build_extension"
    /\ \E has_ninja \in BOOLEAN :
         /\ ninja_probe' = has_ninja
         /\ calls' = Append(calls, Call(<<"ninja", "--version">>, has_ninja, ext_i))
         /\ build_with_ninja' = (NinjaArgs(has_ninja, ninja) # <<>>)
         /\ configure_cmd' = <<"cmake", SourceDir>>
                \o CmakeArgs(system, debug, lief_test, has_ninja, ninja)
    /\ build_temp_exists' = TRUE
    /\ pc' = "configure"
    /\ UNCHANGED <<fsVars, optVars, versionVars, ext_i, cmake_probe, step, copied,
                   build_lib_exists, configured, run_no>>

\* lines 111-113: "1. Configure"
Configure ==
    /\ pc = "configure"
    /\ \E ok \in BOOLEAN :
         /\ calls' = Append(calls, Call(configure_cmd, ok, ext_i))
         /\ pc' = AfterCheckCall(ok, "build")
    /\ configured' = Append(configured,
                            [cmd |-> configure_cmd, has_ninja |-> ninja_probe,
                             run |-> run_no, ext |-> ext_i])
    /\ step' = 1
    /\ UNCHANGED <<fsVars, optVars, versionVars, ext_i, cmake_probe, ninja_probe,
                   build_with_ninja, configure_cmd, copied, build_temp_exists,
                   build_lib_exists, run_no>>

\* lines 115-136: "2. Build", one subprocess call at a time
Build ==
    /\ pc = "build"
    /\ LET plan == BuildCommands(system, build_with_ninja, lief_test,
                                 Jobs(parallel), configure_cmd,
                                 BuildArgs(system, debug))
       IN  \E ok \in BOOLEAN :
             /\ calls' = Append(calls, Call(plan[step], ok, ext_i))
             /\ pc' = AfterCheckCall(ok, IF step = Len(plan) THEN "copy" ELSE "build")
             /\ step' = IF ok /\ step < Len(plan) THEN step + 1 ELSE step
    /\ UNCHANGED <<fsVars, optVars, versionVars, ext_i, cmake_probe, ninja_probe,
                   build_with_ninja, configure_cmd, copied, build_temp_exists,
                   build_lib_exists, configured, run_no>>

\* lines 138-148: makedirs(build_lib) and copy_file, then the loop of run()
\* (53-54) moves to the next extension
Copy ==
    /\ pc = "copy"
    /\ build_lib_exists' = TRUE
    /\ calls' = Append(calls,
           Call(<<"copy_file",
                  OutputDir \o "/" \o PACKAGE_NAME \o "." \o LibSuffix,
                  BuildLib \o "/" \o extensions[ext_i] \o "." \o LibSuffix>>,
                TRUE, ext_i))
    /\ copied' = copied \cup {ext_i}
    /\ IF ext_i < Len(extensions)
       THEN /\ ext_i' = ext_i + 1
            /\ pc' = "build_extension"
       ELSE /\ pc' = "copy_extensions_to_source"
            /\ UNCHANGED ext_i
    /\ UNCHANGED <<fsVars, optVars, versionVars, cmake_probe, ninja_probe,
                   build_with_ninja, configure_cmd, step, build_temp_exists,
                   configured, run_no>>

\* line 55: the end of run()
CopyExtensionsToSource ==
    /\ pc = "copy_extensions_to_source"
    /\ pc' = "done"
    /\ UNCHANGED <<fsVars, optVars, versionVars, buildVars, run_no>>

\* the script is invoked again on the same tree with the same options; the
\* directories the earlier invocation made are still there
Rerun ==
    /\ pc \in {"done", "raised"}
    /\ run_no < MaxRuns
    /\ run_no' = run_no + 1
    /\ pc' = "get_version"
    /\ is_tagged' = FALSE
    /\ described' = NotDescribed
    /\ version' = Unset
    /\ ext_i' = 0
    /\ cmake_probe' = "none"
    /\ ninja_probe' = FALSE
    /\ build_with_ninja' = FALSE
    /\ configure_cmd' = <<>>
    /\ step' = 0
    /\ calls' = <<>>
    /\ copied' = {}
    /\ UNCHANGED <<fsVars, optVars, build_temp_exists, build_lib_exists, configured>>

Next ==
    \/ GetVersion
    \/ CheckIfTagged
    \/ GetGitVersion
    \/ PkgInfo
    \/ Setup
    \/ Run
    \/ BuildExtension
    \/ Configure
    \/ Build
    \/ Copy
    \/ CopyExtensionsToSource
    \/ Rerun

Spec == Init /\ [][Next]_vars

\* ------------------------------------------------- the version resolver
DevSuffix == <<".", "d", "e", "v", "0">>

\* get_version has ended, with a value or an exception
Resolved == version # Unset

\* get_git_version returned a value in this invocation
GitGave ==
    /\ described.ok
    /\ format_version_asserts(
           DescribeOutput(described.tag, described.count, described.dirty))

\* C1: with no .git directory and no PKG-INFO file the version given to
\* setup() is the string "0.0.0".
C1_DefaultVersion ==
    (Resolved /\ ~git_dir /\ ~pkg_info) => version = Str(DefaultVersion)

\* C2: for every tag T, dashes in T included, when git describe prints
\* T-0-g<sha> (no commit since the tag, clean tree) get_git_version returns
\* exactly T, whatever is_tagged is.
C2_CleanTagIsBareTag ==
    (described.ok /\ described.count = <<"0">> /\ ~described.dirty)
        => version = Str(described.tag)

\* C3: for every tag T and every commit count other than 0, dirty or not, the
\* version get_version resolves is T followed by ".dev0", whatever
\* check_if_tagged returned.
C3_CountGivesDev0 ==
    (Resolved /\ described.ok /\ described.count # <<"0">>)
        => version = Str(described.tag \o DevSuffix)

\* C4: when git describe reports a dirty tree at the tagged commit
\* (T-0-g<sha>-dirty) the resolved version is T.dev0, also when
\* check_if_tagged returned True.
C4_DirtyGivesDev0 ==
    (Resolved /\ described.ok /\ described.count = <<"0">> /\ described.dirty)
        => version = Str(described.tag \o DevSuffix)

\* C5: get_version never raises; when git gave nothing the result is the one
\* from PKG-INFO, and when PKG-INFO is absent or cannot be read the result is
\* the default "0.0.0".
C5_FailuresFallThrough ==
    /\ version # Raised
    /\ (pc = "setup" /\ ~GitGave /\ pkg_info) => version = Str(PkgVersion)
    /\ (pc = "setup" /\ ~GitGave /\ ~pkg_info) => version = Str(DefaultVersion)

\* ------------------------------------------------------ the build invoker
NinjaProbe == <<"ninja", "--version">>
CmakeProbe == <<"cmake", "--version">>

\* the configure and build commands among the logged calls
IsProbe(argv) == argv \in {NinjaProbe, CmakeProbe}
IsBuildTool(argv) ==
    \/ argv[1] = "make"
    \/ argv[1] = "ninja" /\ argv # NinjaProbe
    \/ argv[1] = "cmake" /\ argv[2] = "--build"
IsConfigure(argv) == argv[1] = "cmake" /\ argv[2] \notin {"--build", "--version"}

\* what a logged call is, read off its argument vector
Kind(argv) ==
    CASE argv[1] = "copy_file" -> "copy"
      [] IsConfigure(argv)     -> "configure"
      [] argv[1] = "cmake"     -> "build " \o argv[5]
      [] argv[1] = "make"      -> "build " \o argv[3]
      [] argv[1] = "ninja"     -> IF Len(argv) = 1 THEN "build all"
                                  ELSE "build " \o argv[2]

\* the calls build_extension made for extension e, the ninja probe left out
CallsOf(e) ==
    LET mine(c) == c.ext = e /\ ~IsProbe(c.argv) IN SelectSeq(calls, mine)

\* C6: when the `cmake --version` probe raises, run() ends in an error and
\* nothing else is started in that invocation: no ninja probe, no configure,
\* no build command, no copy.
C6_CmakeMissingAborts ==
    cmake_probe \in {"oserror", "nonzero"}
        => /\ pc = "raised"
           /\ calls = << Call(CmakeProbe, FALSE, 0) >>
           /\ copied = {}
           /\ ext_i = 0

C6_Witness == cmake_probe = "oserror" /\ pc = "raised" /\ Len(extensions) > 1

\* C7: a configure or build command that exits non-zero is the last call of
\* the invocation: the error leaves run(), the artifact of that extension is
\* not copied, and no later extension is started.
C7_FailedCallIsFatal ==
    \A i \in 1..Len(calls) :
        (~calls[i].ok /\ ~IsProbe(calls[i].argv))
            => /\ i = Len(calls)
               /\ pc = "raised"
               /\ calls[i].ext \notin copied
               /\ ext_i = calls[i].ext
               /\ \A j \in 1..Len(calls) : calls[j].ext <= calls[i].ext

C7_Witness ==
    /\ pc = "raised"
    /\ ext_i < Len(extensions)
    /\ Len(calls) > 4
    /\ ~calls[Len(calls)].ok
    /\ calls[Len(calls)].argv[1] = "make"
    /\ Kind(calls[Len(calls)].argv) = "build all"

\* C8 as stated: every configure_cmd build_extension issues for the same
\* options is the same argument vector, whatever has_ninja answered and
\* whether or not build_temp and build_lib were already there.
C8_ConfigureIdempotent ==
    \A i, j \in 1..Len(configured) : configured[i].cmd = configured[j].cmd

\* C8 amended: two calls of build_extension with the same options issue the
\* same configure_cmd when --ninja is not set or has_ninja answered the same
\* both times.
C8_ConfigureIdempotentSameProbe ==
    \A i, j \in 1..Len(configured) :
        (~ninja \/ configured[i].has_ninja = configured[j].has_ninja)
            => configured[i].cmd = configured[j].cmd

C8_Witness ==
    \E i, j \in 1..Len(configured) :
        /\ configured[i].run < configured[j].run
        /\ configured[i].has_ninja # configured[j].has_ninja
        /\ ~ninja
        /\ build_lib_exists

\* the degree the options ask for
Degree == IF parallel = 0 THEN 1 ELSE parallel
JobFlags == {"-j" \o ToString(n) : n \in 0..(MaxParallel + 1)}

\* C9 as stated: every build-tool call (make, ninja, cmake --build) carries
\* the degree self.parallel, 1 when none is set.
C9_DegreeForwardedEverywhere ==
    \A i \in 1..Len(calls) :
        IsBuildTool(calls[i].argv)
            => \E k \in 1..Len(calls[i].argv) :
                   calls[i].argv[k] = "-j" \o ToString(Degree)

\* C9 amended: every make call carries -j<degree> as its first argument; the
\* ninja and cmake --build calls carry no job count at all.
C9_DegreeForwardedToMake ==
    \A i \in 1..Len(calls) :
        LET argv == calls[i].argv IN
        /\ argv[1] = "make" => argv[2] = "-j" \o ToString(Degree)
        /\ (IsBuildTool(argv) /\ argv[1] # "make")
               => \A k \in 1..Len(argv) : argv[k] \notin JobFlags

C9_Witness ==
    /\ parallel = 2
    /\ \E i \in 1..Len(calls) : calls[i].argv = <<"make", "-j2", "pyLIEF">>
    /\ pc = "done"

\* the order of the calls for one extension
ExpectedOrder ==
    IF lief_test /\ system # "Windows"
    THEN <<"configure", "build lief_samples", "configure", "build all",
           "build check-lief", "copy">>
    ELSE <<"configure", "build pyLIEF", "copy">>

\* C10: for each extension the calls are, in order, configure, the build
\* commands of the chosen path, then the copy, each started only after the
\* one before it succeeded; the second configure repeats the first; ninja is
\* the backend only when --ninja was given and the ninja probe succeeded.
C10_Ordering ==
    \A e \in 1..Len(extensions) :
        LET mine == CallsOf(e) IN
        /\ Len(mine) <= Len(ExpectedOrder)
        /\ \A k \in 1..Len(mine) :
             /\ Kind(mine[k].argv) = ExpectedOrder[k]
             /\ k < Len(mine) => mine[k].ok
             /\ IsConfigure(mine[k].argv) => mine[k].argv = mine[1].argv
             /\ (mine[k].argv[1] = "ninja"
                   \/ \E a \in 1..Len(mine[k].argv) : mine[k].argv[a] = "Ninja")
                  => /\ ninja
                     /\ Call(NinjaProbe, TRUE, e) \in {calls[n] : n \in 1..Len(calls)}
        /\ e \in copied <=> (Len(mine) = Len(ExpectedOrder) /\ mine[Len(mine)].ok)

C10_Witness ==
    /\ pc = "done"
    /\ lief_test
    /\ system = "Linux"
    /\ build_with_ninja
    /\ Len(CallsOf(Len(extensions))) = 6

====
